---- MODULE Spec2Model ----
\* Input-event classification of core/src/events.rs: the ClipEvent tables
\* (flag, propagates, is_button_event, is_key_event, method_name) and the
\* MouseWheelDelta normalisation (lines, eq) over IEEE 754 binary64 magnitudes.
EXTENDS Integers, Sequences, FiniteSets, TLC

VARIABLES op, arg, ret

vars == <<op, arg, ret>>

\* Option<T>: None is the empty tuple, Some(x) the one-element tuple.
None == <<>>

Some(x) == <<x>>

----------------------------------------------------------------------------
\* f64: IEEE 754 binary64.  A finite value is m * 2^e with m a 53-bit
\* significand and e the exponent of its last bit; a value is normal when the
\* first of the 53 bits is 1 and subnormal (or zero) when e = EMin.  The
\* arithmetic works on bit sequences (most significant bit first); a value
\* holds its significand as four 16-bit limbs.  Every NaN behaves alike under
\* the operations used here, so one NaN stands for all of them.

SigBits == 53

EMin == -1074

EMax == 971

Zeros(n) == [i \in 1..n |-> 0]

Ones(n) == [i \in 1..n |-> 1]

Max(a, b) == IF a >= b THEN a ELSE b

\* The number of binary digits of a natural number below 2^30 (0 has none).
BitLen(n) == CHOOSE l \in 0..30 : n < 2^l /\ (l = 0 \/ n >= 2^(l - 1))

\* The w low binary digits of n, most significant first.
NatBitsW(n, w) == <<>> \o [i \in 1..w |-> (n \div 2^(w - i)) % 2]

NatBits(n) == NatBitsW(n, BitLen(n))

StripLeading(bs) ==
    LET ones == {i \in 1..Len(bs) : bs[i] = 1}
    IN  IF ones = {} THEN <<>>
        ELSE SubSeq(bs, CHOOSE i \in ones : \A j \in ones : i <= j, Len(bs))

AnyOne(bs) == \E i \in 1..Len(bs) : bs[i] = 1

\* bs + 1
IncBits(bs) ==
    LET zs == {i \in 1..Len(bs) : bs[i] = 0}
    IN  IF zs = {} THEN <<1>> \o Zeros(Len(bs))
        ELSE LET z == CHOOSE i \in zs : \A j \in zs : i >= j
             IN  <<>> \o [i \in 1..Len(bs) |->
                            IF i < z THEN bs[i] ELSE IF i = z THEN 1 ELSE 0]

\* Wide integers (up to 64 bits) are handled as four 16-bit limbs.
Val4(bs, i) == 8 * bs[i] + 4 * bs[i + 1] + 2 * bs[i + 2] + bs[i + 3]

Val16(bs, i) ==
    4096 * Val4(bs, i) + 256 * Val4(bs, i + 4) + 16 * Val4(bs, i + 8)
        + Val4(bs, i + 12)

Limbs(bs) ==
    LET w == Zeros(64 - Len(bs)) \o bs
    IN  <<Val16(w, 1), Val16(w, 17), Val16(w, 33), Val16(w, 49)>>

LimbBits(a, b, c, d) ==
    NatBitsW(a, 16) \o NatBitsW(b, 16) \o NatBitsW(c, 16) \o NatBitsW(d, 16)

\* bs * k as 64 bits, for a small natural k (the product fits in 64 bits).
MulBits(bs, k) ==
    LET a  == Limbs(bs)
        p4 == a[4] * k
        p3 == a[3] * k + p4 \div 2^16
        p2 == a[2] * k + p3 \div 2^16
        p1 == a[1] * k + p2 \div 2^16
    IN  LimbBits(p1, p2 % 2^16, p3 % 2^16, p4 % 2^16)

\* Long division of bs by the small natural d: quotient bits and remainder.
DivBits(bs, d) ==
    LET a  == Limbs(bs)
        t1 == a[1]
        t2 == (t1 % d) * 2^16 + a[2]
        t3 == (t2 % d) * 2^16 + a[3]
        t4 == (t3 % d) * 2^16 + a[4]
    IN  [q |-> LimbBits(t1 \div d, t2 \div d, t3 \div d, t4 \div d),
         r |-> t4 % d]

NaN == [cls |-> "nan", neg |-> FALSE, e |-> 0, m |-> <<>>]

Inf(neg) == [cls |-> "inf", neg |-> neg, e |-> 0, m |-> <<>>]

Fin(neg, m, e) == [cls |-> "fin", neg |-> neg, e |-> e, m |-> Limbs(m)]

\* The 53 significand bits of a finite value.
Sig(x) == SubSeq(LimbBits(x.m[1], x.m[2], x.m[3], x.m[4]), 64 - SigBits + 1, 64)

\* Round-to-nearest-even of (bits * 2^e), plus a positive fraction of the last
\* place when sticky, to the nearest binary64 value.
RoundF64(neg, bits, e, sticky) ==
    LET n    == StripLeading(bits)
        L    == Len(n)
        k    == Max(L - SigBits, EMin - e)
    IN  IF k <= 0
        THEN LET body == n \o Zeros(-k)
             IN  Fin(neg, Zeros(SigBits - Len(body)) \o body, e + k)
        ELSE LET wide   == Zeros(Max(k + 1 - L, 0)) \o n
                 W      == Len(wide)
                 kept   == SubSeq(wide, 1, W - k)
                 guard  == wide[W - k + 1]
                 rest   == sticky \/ AnyOne(SubSeq(wide, W - k + 2, W))
                 up     == guard = 1 /\ (rest \/ kept[Len(kept)] = 1)
                 r      == StripLeading(IF up THEN IncBits(kept) ELSE kept)
                 carry  == Len(r) > SigBits
                 m      == IF carry THEN SubSeq(r, 1, SigBits) ELSE r
                 e2     == IF carry THEN e + k + 1 ELSE e + k
             IN  IF e2 > EMax THEN Inf(neg)
                 ELSE Fin(neg, Zeros(SigBits - Len(m)) \o m, e2)

\* n * 2^e for a small natural n.
F64Of(neg, n, e) == RoundF64(neg, NatBits(n), e, FALSE)

F64Max == Fin(FALSE, Ones(SigBits), EMax)

F64MinPositive == F64Of(FALSE, 1, EMin)

is_nan(x) == x.cls = "nan"

IsZero(x) == x.cls = "fin" /\ ~AnyOne(Sig(x))

\* x == y on f64
F64Eq(x, y) ==
    IF is_nan(x) \/ is_nan(y) THEN FALSE
    ELSE IF IsZero(x) /\ IsZero(y) THEN TRUE
    ELSE x = y

\* x * n on f64, n a small positive integer-valued f64
F64Mul(x, n) ==
    IF x.cls # "fin" THEN x
    ELSE RoundF64(x.neg, MulBits(Sig(x), n), x.e, FALSE)

\* x / n on f64, n a small positive integer-valued f64
F64Div(x, n) ==
    IF x.cls # "fin" THEN x
    ELSE LET j == Len(NatBits(n)) + 2
             d == DivBits(Sig(x) \o Zeros(j), n)
         IN  RoundF64(x.neg, d.q, x.e - j, d.r # 0)

----------------------------------------------------------------------------
\* MouseWheelDelta

MOUSE_WHEEL_SCALE == 100

Lines(delta) == [unit |-> "Lines", v |-> delta]

Pixels(delta) == [unit |-> "Pixels", v |-> delta]

\* A variant of lines that scales pixel magnitudes the wrong way.
lines_Multiplying(self) ==
    CASE self.unit = "Lines"  -> self.v
      [] self.unit = "Pixels" -> F64Mul(self.v, MOUSE_WHEEL_SCALE)

\* MouseWheelDelta::lines
lines(self) ==
    CASE self.unit = "Lines"  -> self.v
      [] self.unit = "Pixels" -> F64Div(self.v, MOUSE_WHEEL_SCALE)

\* A variant of eq whose NaN arm covers only operands of the same unit.
eq_SameUnitNaN(self, rhs) ==
    LET s == self.v
        r == rhs.v
    IN  IF self.unit = rhs.unit /\ is_nan(s) /\ is_nan(r) THEN TRUE
        ELSE CASE self.unit = "Lines" /\ rhs.unit = "Lines"   -> F64Eq(s, r)
               [] self.unit = "Pixels" /\ rhs.unit = "Pixels" -> F64Eq(s, r)
               [] self.unit = "Pixels" /\ rhs.unit = "Lines"  ->
                      F64Eq(s, F64Mul(r, MOUSE_WHEEL_SCALE))
               [] self.unit = "Lines" /\ rhs.unit = "Pixels"  ->
                      F64Eq(F64Mul(s, MOUSE_WHEEL_SCALE), r)

\* A variant of eq that scales the pixel operand instead of the line operand.
eq_ScalingPixels(self, rhs) ==
    LET s == self.v
        r == rhs.v
    IN  IF is_nan(s) /\ is_nan(r) THEN TRUE
        ELSE CASE self.unit = "Lines" /\ rhs.unit = "Lines"   -> F64Eq(s, r)
               [] self.unit = "Pixels" /\ rhs.unit = "Pixels" -> F64Eq(s, r)
               [] self.unit = "Pixels" /\ rhs.unit = "Lines"  ->
                      F64Eq(F64Mul(s, MOUSE_WHEEL_SCALE), r)
               [] self.unit = "Lines" /\ rhs.unit = "Pixels"  ->
                      F64Eq(s, F64Mul(r, MOUSE_WHEEL_SCALE))

\* <MouseWheelDelta as PartialEq>::eq; the arms are tried in source order.
eq(self, rhs) ==
    LET s == self.v
        r == rhs.v
    IN  IF is_nan(s) /\ is_nan(r) THEN TRUE
        ELSE CASE self.unit = "Lines" /\ rhs.unit = "Lines"   -> F64Eq(s, r)
               [] self.unit = "Pixels" /\ rhs.unit = "Pixels" -> F64Eq(s, r)
               [] self.unit = "Pixels" /\ rhs.unit = "Lines"  ->
                      F64Eq(s, F64Mul(r, MOUSE_WHEEL_SCALE))
               [] self.unit = "Lines" /\ rhs.unit = "Pixels"  ->
                      F64Eq(F64Mul(s, MOUSE_WHEEL_SCALE), r)

\* The magnitudes the operations are exercised on: the special values, the
\* extremes of the format, and finite values on both sides of the scale whose
\* scaling is exact (1, 100, 2.5, 250) and inexact (7 and 7/100, 1/100, and
\* two neighbours just above 1.5 together with the one product of both).
F64Samples ==
    { NaN, Inf(FALSE), Inf(TRUE),
      F64Of(FALSE, 0, EMin), F64Of(TRUE, 0, EMin),
      F64Of(FALSE, 1, 0), F64Of(TRUE, 1, 0),
      F64Of(FALSE, 100, 0), F64Of(TRUE, 100, 0),
      F64Of(FALSE, 250, 0), F64Of(FALSE, 5, -1),
      F64Of(FALSE, 7, 0), F64Div(F64Of(FALSE, 7, 0), 100),
      F64Div(F64Of(FALSE, 1, 0), 100),
      F64Max, F64Div(F64Max, 100), F64MinPositive, F64Of(FALSE, 100, EMin),
      Fin(FALSE, <<1, 1>> \o Zeros(SigBits - 4) \o <<1, 0>>, 1 - SigBits),
      Fin(FALSE, <<1, 1>> \o Zeros(SigBits - 4) \o <<1, 1>>, 1 - SigBits),
      F64Mul(Fin(FALSE, <<1, 1>> \o Zeros(SigBits - 4) \o <<1, 0>>,
                 1 - SigBits), MOUSE_WHEEL_SCALE) }

MouseWheelDeltas ==
    {Lines(d) : d \in F64Samples} \cup {Pixels(d) : d \in F64Samples}

----------------------------------------------------------------------------
\* swf::ClipEventFlag: the legacy event bit-flags, each a single bit, held as
\* the set of its bit positions.
ClipEventFlag ==
    [ LOAD |-> {0}, ENTER_FRAME |-> {1}, UNLOAD |-> {2}, MOUSE_MOVE |-> {3},
      MOUSE_DOWN |-> {4}, MOUSE_UP |-> {5}, KEY_DOWN |-> {6}, KEY_UP |-> {7},
      DATA |-> {8}, INITIALIZE |-> {9}, PRESS |-> {10}, RELEASE |-> {11},
      RELEASE_OUTSIDE |-> {12}, ROLL_OVER |-> {13}, ROLL_OUT |-> {14},
      DRAG_OVER |-> {15}, DRAG_OUT |-> {16}, KEY_PRESS |-> {17},
      CONSTRUCT |-> {18} ]

ClipEventFlagAll == UNION {ClipEventFlag[n] : n \in DOMAIN ClipEventFlag}

from_bits_truncate(bits) == bits \cap ClipEventFlagAll

intersects(a, b) == a \cap b # {}

----------------------------------------------------------------------------
\* ButtonKeyCode, by discriminant.
ButtonKeyCodes == (0..6) \cup {8} \cup (13..19) \cup (32..126)

\* ClipEvent: a variant tag and the variant's payload.
MaxPeers == 2

MaxIndex == 2

Peers == {None} \cup {Some(i) : i \in 1..MaxPeers}

UnitVariants ==
    { "Construct", "Data", "EnterFrame", "Initialize", "KeyUp", "KeyDown",
      "Load", "MouseUp", "RightMouseUp", "MiddleMouseUp", "MouseUpInside",
      "RightMouseUpInside", "MiddleMouseUpInside", "MouseDown",
      "RightMouseDown", "MiddleMouseDown", "MouseMove", "MouseMoveInside",
      "RightPress", "MiddlePress", "RightRelease", "MiddleRelease",
      "ReleaseOutside", "RightReleaseOutside", "MiddleReleaseOutside",
      "Unload" }

ClipEvent ==
    [tag : UnitVariants, data : {<<>>}]
      \cup [tag : {"DragOut", "RollOut"}, data : [to : Peers]]
      \cup [tag : {"DragOver", "RollOver"}, data : [from : Peers]]
      \cup [tag : {"Press", "Release"}, data : [index : 0..MaxIndex]]
      \cup [tag : {"KeyPress"}, data : [key_code : ButtonKeyCodes]]
      \cup [tag : {"MouseWheel"}, data : [delta : MouseWheelDeltas]]

\* The variants with a legacy flag and the name of the flag of each.
FlagOf ==
    [ Construct |-> "CONSTRUCT", Data |-> "DATA", DragOut |-> "DRAG_OUT",
      DragOver |-> "DRAG_OVER", EnterFrame |-> "ENTER_FRAME",
      Initialize |-> "INITIALIZE", KeyDown |-> "KEY_DOWN",
      KeyPress |-> "KEY_PRESS", KeyUp |-> "KEY_UP", Load |-> "LOAD",
      MouseDown |-> "MOUSE_DOWN", MouseMove |-> "MOUSE_MOVE",
      MouseUp |-> "MOUSE_UP", Press |-> "PRESS", RollOut |-> "ROLL_OUT",
      RollOver |-> "ROLL_OVER", Release |-> "RELEASE",
      ReleaseOutside |-> "RELEASE_OUTSIDE", Unload |-> "UNLOAD" ]

\* The variants with a handler method and the name of the method of each.
HandlerOf ==
    [ DragOut |-> "onDragOut", DragOver |-> "onDragOver",
      EnterFrame |-> "onEnterFrame", KeyDown |-> "onKeyDown",
      KeyUp |-> "onKeyUp", Load |-> "onLoad", MouseDown |-> "onMouseDown",
      MouseMove |-> "onMouseMove", MouseUp |-> "onMouseUp",
      Press |-> "onPress", RollOut |-> "onRollOut", RollOver |-> "onRollOver",
      Release |-> "onRelease", ReleaseOutside |-> "onReleaseOutside",
      Unload |-> "onUnload" ]

\* A variant of BUTTON_EVENT_METHODS that lists onDragOver twice and leaves
\* onDragOut out.
BUTTON_EVENT_METHODS_DragOverTwice ==
    << "onDragOver", "onDragOver", "onPress", "onRelease",
       "onReleaseOutside", "onRollOut", "onRollOver" >>

\* ClipEvent::BUTTON_EVENT_METHODS
BUTTON_EVENT_METHODS ==
    << "onDragOver", "onDragOut", "onPress", "onRelease", "onReleaseOutside",
       "onRollOut", "onRollOver" >>

\* A variant of BUTTON_EVENT_FLAGS that leaves KEY_PRESS out.
BUTTON_EVENT_FLAGS_NoKeyPress ==
    from_bits_truncate(
        ClipEventFlag.DRAG_OUT \cup ClipEventFlag.DRAG_OVER
            \cup ClipEventFlag.PRESS
            \cup ClipEventFlag.ROLL_OUT \cup ClipEventFlag.ROLL_OVER
            \cup ClipEventFlag.RELEASE \cup ClipEventFlag.RELEASE_OUTSIDE)

\* ClipEvent::BUTTON_EVENT_FLAGS
BUTTON_EVENT_FLAGS ==
    from_bits_truncate(
        ClipEventFlag.DRAG_OUT \cup ClipEventFlag.DRAG_OVER
            \cup ClipEventFlag.KEY_PRESS \cup ClipEventFlag.PRESS
            \cup ClipEventFlag.ROLL_OUT \cup ClipEventFlag.ROLL_OVER
            \cup ClipEventFlag.RELEASE \cup ClipEventFlag.RELEASE_OUTSIDE)

\* A variant of flag that gives RollOut the flag of RollOver.
flag_RollOutAsRollOver(self) ==
    IF self.tag = "RollOut" THEN Some(ClipEventFlag.ROLL_OVER)
    ELSE IF self.tag \in DOMAIN FlagOf
    THEN Some(ClipEventFlag[FlagOf[self.tag]])
    ELSE None

\* A variant of flag that gives the right button's release the flag of the
\* left button's.
flag_RightMouseUpAsMouseUp(self) ==
    IF self.tag = "RightMouseUp" THEN Some(ClipEventFlag.MOUSE_UP)
    ELSE IF self.tag \in DOMAIN FlagOf
    THEN Some(ClipEventFlag[FlagOf[self.tag]])
    ELSE None

\* ClipEvent::flag
flag(self) ==
    CASE self.tag = "Construct"      -> Some(ClipEventFlag.CONSTRUCT)
      [] self.tag = "Data"           -> Some(ClipEventFlag.DATA)
      [] self.tag = "DragOut"        -> Some(ClipEventFlag.DRAG_OUT)
      [] self.tag = "DragOver"       -> Some(ClipEventFlag.DRAG_OVER)
      [] self.tag = "EnterFrame"     -> Some(ClipEventFlag.ENTER_FRAME)
      [] self.tag = "Initialize"     -> Some(ClipEventFlag.INITIALIZE)
      [] self.tag = "KeyDown"        -> Some(ClipEventFlag.KEY_DOWN)
      [] self.tag = "KeyPress"       -> Some(ClipEventFlag.KEY_PRESS)
      [] self.tag = "KeyUp"          -> Some(ClipEventFlag.KEY_UP)
      [] self.tag = "Load"           -> Some(ClipEventFlag.LOAD)
      [] self.tag = "MouseDown"      -> Some(ClipEventFlag.MOUSE_DOWN)
      [] self.tag = "MouseMove"      -> Some(ClipEventFlag.MOUSE_MOVE)
      [] self.tag = "MouseUp"        -> Some(ClipEventFlag.MOUSE_UP)
      [] self.tag = "Press"          -> Some(ClipEventFlag.PRESS)
      [] self.tag = "RollOut"        -> Some(ClipEventFlag.ROLL_OUT)
      [] self.tag = "RollOver"       -> Some(ClipEventFlag.ROLL_OVER)
      [] self.tag = "Release"        -> Some(ClipEventFlag.RELEASE)
      [] self.tag = "ReleaseOutside" -> Some(ClipEventFlag.RELEASE_OUTSIDE)
      [] self.tag = "Unload"         -> Some(ClipEventFlag.UNLOAD)
      [] OTHER                       -> None

\* A variant of propagates that leaves KeyPress out.
propagates_NoKeyPress(self) ==
    self.tag \in {"MouseUp", "MouseDown", "MouseMove", "KeyDown", "KeyUp"}

\* A variant of propagates that looks at the key code of a KeyPress.
propagates_ByKeyCode(self) ==
    \/ self.tag \in {"MouseUp", "MouseDown", "MouseMove", "KeyDown", "KeyUp"}
    \/ self.tag = "KeyPress" /\ self.data.key_code # 0

\* ClipEvent::propagates
propagates(self) ==
    self.tag \in {"MouseUp", "MouseDown", "MouseMove", "KeyPress", "KeyDown",
                  "KeyUp"}

\* ClipEvent::is_button_event
is_button_event(self) ==
    IF flag(self) # None
    THEN intersects(flag(self)[1], BUTTON_EVENT_FLAGS)
    ELSE FALSE

\* A variant of is_key_event that leaves KeyPress out.
is_key_event_NoKeyPress(self) == self.tag \in {"KeyDown", "KeyUp"}

\* ClipEvent::is_key_event
is_key_event(self) == self.tag \in {"KeyDown", "KeyUp", "KeyPress"}

\* A variant of method_name that names a handler for Data.
method_name_WithOnData(self) ==
    IF self.tag = "Data" THEN Some("onData")
    ELSE IF self.tag \in DOMAIN HandlerOf THEN Some(HandlerOf[self.tag])
    ELSE None

\* ClipEvent::method_name; an interned string is the string.
method_name(self) ==
    CASE self.tag = "Construct"      -> None
      [] self.tag = "Data"           -> None
      [] self.tag = "DragOut"        -> Some("onDragOut")
      [] self.tag = "DragOver"       -> Some("onDragOver")
      [] self.tag = "EnterFrame"     -> Some("onEnterFrame")
      [] self.tag = "Initialize"     -> None
      [] self.tag = "KeyDown"        -> Some("onKeyDown")
      [] self.tag = "KeyPress"       -> None
      [] self.tag = "KeyUp"          -> Some("onKeyUp")
      [] self.tag = "Load"           -> Some("onLoad")
      [] self.tag = "MouseDown"      -> Some("onMouseDown")
      [] self.tag = "MouseMove"      -> Some("onMouseMove")
      [] self.tag = "MouseUp"        -> Some("onMouseUp")
      [] self.tag = "Press"          -> Some("onPress")
      [] self.tag = "RollOut"        -> Some("onRollOut")
      [] self.tag = "RollOver"       -> Some("onRollOver")
      [] self.tag = "Release"        -> Some("onRelease")
      [] self.tag = "ReleaseOutside" -> Some("onReleaseOutside")
      [] self.tag = "Unload"         -> Some("onUnload")
      [] OTHER                       -> None

----------------------------------------------------------------------------
\* KeyCode: a u32 newtype; the named key codes.
KeyCode ==
    [ UNKNOWN |-> 0, MOUSE_LEFT |-> 1, MOUSE_RIGHT |-> 2, MOUSE_MIDDLE |->
      4, BACKSPACE |-> 8, TAB |-> 9, ENTER |-> 13, COMMAND |-> 15, SHIFT |->
      16, CONTROL |-> 17, ALT |-> 18, PAUSE |-> 19, CAPS_LOCK |-> 20, NUMPAD
      |-> 21, ESCAPE |-> 27, SPACE |-> 32, PAGE_UP |-> 33, PAGE_DOWN |-> 34,
      END |-> 35, HOME |-> 36, LEFT |-> 37, UP |-> 38, RIGHT |-> 39, DOWN
      |-> 40, INSERT |-> 45, DELETE |-> 46, NUMBER_0 |-> 48, NUMBER_1 |->
      49, NUMBER_2 |-> 50, NUMBER_3 |-> 51, NUMBER_4 |-> 52, NUMBER_5 |->
      53, NUMBER_6 |-> 54, NUMBER_7 |-> 55, NUMBER_8 |-> 56, NUMBER_9 |->
      57, A |-> 65, B |-> 66, C |-> 67, D |-> 68, E |-> 69, F |-> 70, G |->
      71, H |-> 72, I |-> 73, J |-> 74, K |-> 75, L |-> 76, M |-> 77, N |->
      78, O |-> 79, P |-> 80, Q |-> 81, R |-> 82, S |-> 83, T |-> 84, U |->
      85, V |-> 86, W |-> 87, X |-> 88, Y |-> 89, Z |-> 90, NUMPAD_0 |-> 96,
      NUMPAD_1 |-> 97, NUMPAD_2 |-> 98, NUMPAD_3 |-> 99, NUMPAD_4 |-> 100,
      NUMPAD_5 |-> 101, NUMPAD_6 |-> 102, NUMPAD_7 |-> 103, NUMPAD_8 |->
      104, NUMPAD_9 |-> 105, NUMPAD_MULTIPLY |-> 106, NUMPAD_ADD |-> 107,
      NUMPAD_ENTER |-> 108, NUMPAD_SUBTRACT |-> 109, NUMPAD_DECIMAL |-> 110,
      NUMPAD_DIVIDE |-> 111, F1 |-> 112, F2 |-> 113, F3 |-> 114, F4 |-> 115,
      F5 |-> 116, F6 |-> 117, F7 |-> 118, F8 |-> 119, F9 |-> 120, F10 |->
      121, F11 |-> 122, F12 |-> 123, F13 |-> 124, F14 |-> 125, F15 |-> 126,
      F16 |-> 127, F17 |-> 128, F18 |-> 129, F19 |-> 130, F20 |-> 131, F21
      |-> 132, F22 |-> 133, F23 |-> 134, F24 |-> 135, NUM_LOCK |-> 144,
      SCROLL_LOCK |-> 145, SEMICOLON |-> 186, EQUAL |-> 187, COMMA |-> 188,
      MINUS |-> 189, PERIOD |-> 190, SLASH |-> 191, BACKQUOTE |-> 192,
      LEFTBRACKET |-> 219, BACKSLASH |-> 220, RIGHTBRACKET |-> 221, QUOTE
      |-> 222 ]

\* The key codes the operations are exercised on: every code up to MaxKeyCode,
\* named or not.
MaxKeyCode == 255

KeyCodes == 0..MaxKeyCode

\* ButtonKeyCode: the variants and the discriminant of each.
ButtonKeyCode ==
    [ Unknown |-> 0, Left |-> 1, Right |-> 2, Home |-> 3, End |-> 4, Insert
      |-> 5, Delete |-> 6, Backspace |-> 8, Return |-> 13, Up |-> 14, Down
      |-> 15, PgUp |-> 16, PgDown |-> 17, Tab |-> 18, Escape |-> 19, Space
      |-> 32, Exclamation |-> 33, DoubleQuote |-> 34, NumberSign |-> 35,
      Dollar |-> 36, Percent |-> 37, Ampersand |-> 38, SingleQuote |-> 39,
      LParen |-> 40, RParen |-> 41, Asterisk |-> 42, Plus |-> 43, Comma |->
      44, Minus |-> 45, Period |-> 46, Slash |-> 47, Zero |-> 48, One |->
      49, Two |-> 50, Three |-> 51, Four |-> 52, Five |-> 53, Six |-> 54,
      Seven |-> 55, Eight |-> 56, Nine |-> 57, Colon |-> 58, Semicolon |->
      59, LessThan |-> 60, Equals |-> 61, GreaterThan |-> 62, Question |->
      63, At |-> 64, UppercaseA |-> 65, UppercaseB |-> 66, UppercaseC |->
      67, UppercaseD |-> 68, UppercaseE |-> 69, UppercaseF |-> 70,
      UppercaseG |-> 71, UppercaseH |-> 72, UppercaseI |-> 73, UppercaseJ
      |-> 74, UppercaseK |-> 75, UppercaseL |-> 76, UppercaseM |-> 77,
      UppercaseN |-> 78, UppercaseO |-> 79, UppercaseP |-> 80, UppercaseQ
      |-> 81, UppercaseR |-> 82, UppercaseS |-> 83, UppercaseT |-> 84,
      UppercaseU |-> 85, UppercaseV |-> 86, UppercaseW |-> 87, UppercaseX
      |-> 88, UppercaseY |-> 89, UppercaseZ |-> 90, LBracket |-> 91,
      Backslash |-> 92, RBracket |-> 93, Caret |-> 94, Underscore |-> 95,
      Backquote |-> 96, A |-> 97, B |-> 98, C |-> 99, D |-> 100, E |-> 101,
      F |-> 102, G |-> 103, H |-> 104, I |-> 105, J |-> 106, K |-> 107, L
      |-> 108, M |-> 109, N |-> 110, O |-> 111, P |-> 112, Q |-> 113, R |->
      114, S |-> 115, T |-> 116, U |-> 117, V |-> 118, W |-> 119, X |-> 120,
      Y |-> 121, Z |-> 122, LBrace |-> 123, Pipe |-> 124, RBrace |-> 125,
      Tilde |-> 126 ]

\* The outcome of a call that panics (Option::unwrap on None).
Panic == <<"panic", "Option::unwrap on None">>

\* A variant of from_u8 that drops the high bit of n before the lookup.
from_u8_DroppingHighBit(n) ==
    IF \E k \in DOMAIN ButtonKeyCode : ButtonKeyCode[k] = n % 128
    THEN Some(CHOOSE k \in DOMAIN ButtonKeyCode : ButtonKeyCode[k] = n % 128)
    ELSE None

\* ButtonKeyCode::from_u8 (derived FromPrimitive): the variant whose
\* discriminant is n, if there is one.
from_u8(n) ==
    IF \E k \in DOMAIN ButtonKeyCode : ButtonKeyCode[k] = n
    THEN Some(CHOOSE k \in DOMAIN ButtonKeyCode : ButtonKeyCode[k] = n)
    ELSE None

\* ButtonKeyCode::to_u8 (derived ToPrimitive): the discriminant when it fits
\* a u8, else the default 0.
to_u8(self) ==
    IF ButtonKeyCode[self] \in 0..255 THEN ButtonKeyCode[self] ELSE 0

\* A variant of from_key_code that also maps the space bar.
from_key_code_WithSpace(key_code) ==
    CASE key_code = KeyCode.LEFT      -> Some("Left")
      [] key_code = KeyCode.RIGHT     -> Some("Right")
      [] key_code = KeyCode.HOME      -> Some("Home")
      [] key_code = KeyCode.END       -> Some("End")
      [] key_code = KeyCode.INSERT    -> Some("Insert")
      [] key_code = KeyCode.DELETE    -> Some("Delete")
      [] key_code = KeyCode.BACKSPACE -> Some("Backspace")
      [] key_code = KeyCode.ENTER     -> Some("Return")
      [] key_code = KeyCode.UP        -> Some("Up")
      [] key_code = KeyCode.DOWN      -> Some("Down")
      [] key_code = KeyCode.PAGE_UP   -> Some("PgUp")
      [] key_code = KeyCode.PAGE_DOWN -> Some("PgDown")
      [] key_code = KeyCode.ESCAPE    -> Some("Escape")
      [] key_code = KeyCode.TAB       -> Some("Tab")
      [] key_code = KeyCode.SPACE     -> Some("Space")
      [] OTHER                        -> None

\* ButtonKeyCode::from_key_code
from_key_code(key_code) ==
    CASE key_code = KeyCode.LEFT      -> Some("Left")
      [] key_code = KeyCode.RIGHT     -> Some("Right")
      [] key_code = KeyCode.HOME      -> Some("Home")
      [] key_code = KeyCode.END       -> Some("End")
      [] key_code = KeyCode.INSERT    -> Some("Insert")
      [] key_code = KeyCode.DELETE    -> Some("Delete")
      [] key_code = KeyCode.BACKSPACE -> Some("Backspace")
      [] key_code = KeyCode.ENTER     -> Some("Return")
      [] key_code = KeyCode.UP        -> Some("Up")
      [] key_code = KeyCode.DOWN      -> Some("Down")
      [] key_code = KeyCode.PAGE_UP   -> Some("PgUp")
      [] key_code = KeyCode.PAGE_DOWN -> Some("PgDown")
      [] key_code = KeyCode.ESCAPE    -> Some("Escape")
      [] key_code = KeyCode.TAB       -> Some("Tab")
      [] OTHER                        -> None

\* char: the Unicode scalar values the operations are exercised on, every one
\* up to MaxCodepoint (past the u8 range, so that the cast to u8 wraps) and
\* two far ones (the euro sign and the last scalar value).
MaxCodepoint == 300

Chars == (0..MaxCodepoint) \cup {8364, 1114111}

\* crate::input::InputEvent: a variant tag and the fields of the variant that
\* ButtonKeyCode::from_input_event can see (the codepoint of a TextInput, the
\* key code and key character of a KeyDown or KeyUp).
InputEvent ==
    [tag : {"TextInput"}, codepoint : Chars]
      \cup [tag : {"KeyDown", "KeyUp"}, key_code : KeyCodes,
            key_char : {None, Some(97)}]
      \cup [tag : {"MouseMove", "MouseUp", "MouseDown", "MouseLeave",
                   "MouseWheel", "TextControl"}]

\* A variant of from_input_event whose direct range runs through 127.
from_input_event_Through127(event) ==
    CASE event.tag = "TextInput" /\ event.codepoint >= 32
                                 /\ event.codepoint <= 127
            -> LET r == from_u8(event.codepoint % 256)
               IN  IF r = None THEN Panic ELSE Some(r[1])
      [] event.tag = "KeyDown" -> from_key_code(event.key_code)
      [] OTHER -> None

\* ButtonKeyCode::from_input_event; the codepoint is cast to u8 and the
\* result of from_u8 unwrapped.
from_input_event(event) ==
    CASE event.tag = "TextInput" /\ event.codepoint >= 32
                                 /\ event.codepoint <= 126
            -> LET r == from_u8(event.codepoint % 256)
               IN  IF r = None THEN Panic ELSE Some(r[1])
      [] event.tag = "KeyDown" -> from_key_code(event.key_code)
      [] OTHER -> None

----------------------------------------------------------------------------
\* TextControlCode
TextControlCode ==
    { "MoveLeft", "MoveLeftWord", "MoveLeftLine", "MoveLeftDocument",
      "MoveRight", "MoveRightWord", "MoveRightLine", "MoveRightDocument",
      "SelectLeft", "SelectLeftWord", "SelectLeftLine",
      "SelectLeftDocument", "SelectRight", "SelectRightWord",
      "SelectRightLine", "SelectRightDocument", "SelectAll", "Copy",
      "Paste", "Cut", "Backspace", "BackspaceWord", "Enter", "Delete",
      "DeleteWord" }

\* A variant of is_edit_input that counts Copy as an edit.
is_edit_input_WithCopy(self) ==
    self \in { "Paste", "Cut", "Copy", "Backspace", "BackspaceWord", "Enter",
               "Delete", "DeleteWord" }

\* TextControlCode::is_edit_input
is_edit_input(self) ==
    self \in { "Paste", "Cut", "Backspace", "BackspaceWord", "Enter",
               "Delete", "DeleteWord" }

----------------------------------------------------------------------------
\* GamepadButton
GamepadButton ==
    { "South", "East", "North", "West", "LeftTrigger", "LeftTrigger2",
      "RightTrigger", "RightTrigger2", "Select", "Start", "DPadUp",
      "DPadDown", "DPadLeft", "DPadRight" }

ParseEnumError == "ParseEnumError"

\* Result<T, E>
Ok(x) == <<"Ok", x>>

Err(e) == <<"Err", e>>

\* A variant of from_str whose wildcard arm falls back to a default button.
from_str_DefaultSouth(s) ==
    CASE s = "south"           -> Ok("South")
      [] s = "east"            -> Ok("East")
      [] s = "north"           -> Ok("North")
      [] s = "west"            -> Ok("West")
      [] s = "left-trigger"    -> Ok("LeftTrigger")
      [] s = "left-trigger-2"  -> Ok("LeftTrigger2")
      [] s = "right-trigger"   -> Ok("RightTrigger")
      [] s = "right-trigger-2" -> Ok("RightTrigger2")
      [] s = "select"          -> Ok("Select")
      [] s = "start"           -> Ok("Start")
      [] s = "dpad-up"         -> Ok("DPadUp")
      [] s = "dpad-down"       -> Ok("DPadDown")
      [] s = "dpad-left"       -> Ok("DPadLeft")
      [] s = "dpad-right"      -> Ok("DPadRight")
      [] OTHER                 -> Ok("South")

\* <GamepadButton as FromStr>::from_str
from_str(s) ==
    CASE s = "south"           -> Ok("South")
      [] s = "east"            -> Ok("East")
      [] s = "north"           -> Ok("North")
      [] s = "west"            -> Ok("West")
      [] s = "left-trigger"    -> Ok("LeftTrigger")
      [] s = "left-trigger-2"  -> Ok("LeftTrigger2")
      [] s = "right-trigger"   -> Ok("RightTrigger")
      [] s = "right-trigger-2" -> Ok("RightTrigger2")
      [] s = "select"          -> Ok("Select")
      [] s = "start"           -> Ok("Start")
      [] s = "dpad-up"         -> Ok("DPadUp")
      [] s = "dpad-down"       -> Ok("DPadDown")
      [] s = "dpad-left"       -> Ok("DPadLeft")
      [] s = "dpad-right"      -> Ok("DPadRight")
      [] OTHER                 -> Err(ParseEnumError)

\* The strings from_str is exercised on: the fourteen tokens and strings
\* that are not tokens (the empty string, other casings and separators,
\* variant names, tokens with a character more or less).
Strs ==
    { "south", "east", "north", "west", "left-trigger", "left-trigger-2",
      "right-trigger", "right-trigger-2", "select", "start", "dpad-up",
      "dpad-down", "dpad-left", "dpad-right",
      "", "invalid", "South", "SOUTH", "DPAD-UP", "Dpad-Up", "dpad_up",
      "dpadup", "d-pad-up", "DPadUp", "LeftTrigger", "left_trigger",
      "left-trigger-1", "left-trigger-3", "left-trigger-", "left-trigger2",
      " south", "south ", "sout", "souths", "a", "b", "x", "y", "up",
      "dpad", "trigger", "0" }

----------------------------------------------------------------------------
\* NamedKey
NamedKey ==
    { "Alt", "AltGraph", "CapsLock", "Control", "Fn", "FnLock", "Super",
      "NumLock", "ScrollLock", "Shift", "Symbol", "SymbolLock", "Enter",
      "Tab", "ArrowDown", "ArrowLeft", "ArrowRight", "ArrowUp", "End",
      "Home", "PageDown", "PageUp", "Backspace", "Clear", "Copy", "CrSel",
      "Cut", "Delete", "EraseEof", "ExSel", "Insert", "Paste", "Redo",
      "Undo", "ContextMenu", "Escape", "Pause", "Play", "Select", "ZoomIn",
      "ZoomOut", "PrintScreen", "F1", "F2", "F3", "F4", "F5", "F6", "F7",
      "F8", "F9", "F10", "F11", "F12", "F13", "F14", "F15", "F16", "F17",
      "F18", "F19", "F20", "F21", "F22", "F23", "F24", "F25", "F26", "F27",
      "F28", "F29", "F30", "F31", "F32", "F33", "F34", "F35" }

\* LogicalKey: Unknown, Character(char) or Named(NamedKey).
LogicalKey ==
    [tag : {"Unknown"}]
      \cup [tag : {"Character"}, ch : Chars]
      \cup [tag : {"Named"}, key : NamedKey]

\* A variant of character that gives Delete the character of Backspace.
character_DeleteAsBackspace(self) ==
    CASE self.tag = "Unknown" -> None
      [] self.tag = "Character" -> Some(self.ch)
      [] self.tag = "Named" /\ self.key = "Backspace" -> Some(8)
      [] self.tag = "Named" /\ self.key = "Tab"       -> Some(9)
      [] self.tag = "Named" /\ self.key = "Enter"     -> Some(13)
      [] self.tag = "Named" /\ self.key = "Escape"    -> Some(27)
      [] self.tag = "Named" /\ self.key = "Delete"    -> Some(8)
      [] OTHER -> None

\* LogicalKey::character; a char is its scalar value (U+0008 is 8, U+0009
\* is 9, U+000D is 13, U+001B is 27, U+007F is 127).
character(self) ==
    CASE self.tag = "Unknown" -> None
      [] self.tag = "Character" -> Some(self.ch)
      [] self.tag = "Named" /\ self.key = "Backspace" -> Some(8)
      [] self.tag = "Named" /\ self.key = "Tab"       -> Some(9)
      [] self.tag = "Named" /\ self.key = "Enter"     -> Some(13)
      [] self.tag = "Named" /\ self.key = "Escape"    -> Some(27)
      [] self.tag = "Named" /\ self.key = "Delete"    -> Some(127)
      [] OTHER -> None

----------------------------------------------------------------------------
\* One action per operation: an idle caller picks the operands, the operation
\* runs, and its operands and result are what is observed; Return consumes
\* the result (no value outlives the processing of its event).

Init == op = "init" /\ arg = <<>> /\ ret = <<>>

CallFlag ==
    \E e \in ClipEvent :
        op = "init" /\ op' = "flag" /\ arg' = <<e>> /\ ret' = flag(e)

CallPropagates ==
    \E e \in ClipEvent :
        op = "init" /\ op' = "propagates" /\ arg' = <<e>>
            /\ ret' = propagates(e)

CallIsButtonEvent ==
    \E e \in ClipEvent :
        op = "init" /\ op' = "is_button_event" /\ arg' = <<e>>
            /\ ret' = is_button_event(e)

CallIsKeyEvent ==
    \E e \in ClipEvent :
        op = "init" /\ op' = "is_key_event" /\ arg' = <<e>>
            /\ ret' = is_key_event(e)

CallMethodName ==
    \E e \in ClipEvent :
        op = "init" /\ op' = "method_name" /\ arg' = <<e>>
            /\ ret' = method_name(e)

CallLines ==
    \E d \in MouseWheelDeltas :
        op = "init" /\ op' = "lines" /\ arg' = <<d>> /\ ret' = lines(d)

CallEq ==
    \E a \in MouseWheelDeltas, b \in MouseWheelDeltas :
        op = "init" /\ op' = "eq" /\ arg' = <<a, b>> /\ ret' = eq(a, b)

CallFromU8 ==
    \E n \in 0..255 :
        op = "init" /\ op' = "from_u8" /\ arg' = <<n>> /\ ret' = from_u8(n)

CallToU8 ==
    \E k \in DOMAIN ButtonKeyCode :
        op = "init" /\ op' = "to_u8" /\ arg' = <<k>> /\ ret' = to_u8(k)

CallFromKeyCode ==
    \E key_code \in KeyCodes :
        op = "init" /\ op' = "from_key_code" /\ arg' = <<key_code>>
            /\ ret' = from_key_code(key_code)

CallFromInputEvent ==
    \E event \in InputEvent :
        op = "init" /\ op' = "from_input_event" /\ arg' = <<event>>
            /\ ret' = from_input_event(event)

CallIsEditInput ==
    \E code \in TextControlCode :
        op = "init" /\ op' = "is_edit_input" /\ arg' = <<code>>
            /\ ret' = is_edit_input(code)

CallFromStr ==
    \E s \in Strs :
        op = "init" /\ op' = "from_str" /\ arg' = <<s>> /\ ret' = from_str(s)

CallCharacter ==
    \E key \in LogicalKey :
        op = "init" /\ op' = "character" /\ arg' = <<key>>
            /\ ret' = character(key)

Return == op # "init" /\ op' = "init" /\ arg' = <<>> /\ ret' = <<>>

Next ==
    \/ CallFlag
    \/ CallPropagates
    \/ CallIsButtonEvent
    \/ CallIsKeyEvent
    \/ CallMethodName
    \/ CallLines
    \/ CallEq
    \/ CallFromU8
    \/ CallToU8
    \/ CallFromKeyCode
    \/ CallFromInputEvent
    \/ CallIsEditInput
    \/ CallFromStr
    \/ CallCharacter
    \/ Return

Spec == Init /\ [][Next]_vars

----------------------------------------------------------------------------
\* Properties.

AnycastVariants ==
    {"MouseUp", "MouseDown", "MouseMove", "KeyUp", "KeyDown", "KeyPress"}

ButtonEventVariants ==
    { "DragOut", "DragOver", "KeyPress", "Press", "RollOut", "RollOver",
      "Release", "ReleaseOutside" }

\* C1: propagates() is true exactly for the six anycast variants MouseUp,
\* MouseDown, MouseMove, KeyUp, KeyDown and KeyPress (any key_code) and false
\* for every other variant.
C1_PropagatesExactlyAnycast ==
    op = "propagates" => ret = (arg[1].tag \in AnycastVariants)

C1_Witness ==
    /\ op = "propagates"
    /\ arg[1].tag = "KeyPress"
    /\ arg[1].data.key_code = 65
    /\ ret = TRUE

\* C2: is_button_event() is true iff flag() returns a flag and that flag
\* intersects BUTTON_EVENT_FLAGS: true exactly for DragOut, DragOver, KeyPress,
\* Press, RollOut, RollOver, Release and ReleaseOutside, false for a flagged
\* non-member such as MouseUp, and false wherever flag() is none.
C2_ButtonEventIffFlagIntersects ==
    op = "is_button_event" =>
        LET e == arg[1]
            f == flag(e)
        IN  /\ ret = (f # None /\ f[1] \cap BUTTON_EVENT_FLAGS # {})
            /\ ret = (e.tag \in ButtonEventVariants)
            /\ (f = None => ret = FALSE)
            /\ (e.tag = "MouseUp" => f # None /\ ret = FALSE)

C2_Witness ==
    /\ op = "is_button_event"
    /\ arg[1].tag = "KeyPress"
    /\ flag(arg[1]) = Some(ClipEventFlag.KEY_PRESS)
    /\ ret = TRUE

\* C3: is_key_event() is true only for KeyDown, KeyUp and KeyPress and false
\* for every other variant.
C3_KeyEventExactlyThree ==
    op = "is_key_event" => ret = (arg[1].tag \in {"KeyDown", "KeyUp", "KeyPress"})

C3_Witness ==
    /\ op = "is_key_event"
    /\ arg[1].tag = "KeyPress"
    /\ arg[1].data.key_code = 13
    /\ ret = TRUE

\* C4: method_name() is total: it yields the fixed handler name for the
\* fifteen named variants, none for Construct, Data, Initialize and KeyPress,
\* and none for every remaining variant.
C4_MethodNameTable ==
    op = "method_name" =>
        LET t == arg[1].tag
        IN  /\ (t \in DOMAIN HandlerOf => ret = Some(HandlerOf[t]))
            /\ (t \notin DOMAIN HandlerOf => ret = None)
            /\ (t \in {"Construct", "Data", "Initialize", "KeyPress"} => ret = None)
            /\ (t \in {"MouseWheel", "RightMouseUp", "MiddleMouseDown",
                       "RightPress", "MouseUpInside", "MouseMoveInside"}
                    => ret = None)

C4_Witness ==
    /\ op = "method_name"
    /\ arg[1] = [tag |-> "Press", data |-> [index |-> 0]]
    /\ ret = Some("onPress")

ClassifyOps ==
    {"flag", "propagates", "is_button_event", "is_key_event", "method_name"}

Classify(f, e) ==
    CASE f = "flag"            -> flag(e)
      [] f = "propagates"      -> propagates(e)
      [] f = "is_button_event" -> is_button_event(e)
      [] f = "is_key_event"    -> is_key_event(e)
      [] f = "method_name"     -> method_name(e)

\* C5: every classification result is determined by the variant tag alone:
\* two events of the same variant that differ only in payload get the same
\* flag(), propagates(), is_button_event(), is_key_event() and method_name().
C5_PayloadIndependent ==
    op \in ClassifyOps =>
        \A e2 \in ClipEvent : e2.tag = arg[1].tag => Classify(op, e2) = ret

C5_Witness ==
    /\ op = "propagates"
    /\ arg[1].tag = "KeyPress"
    /\ arg[1].data.key_code = 0
    /\ ret = TRUE

\* C6: flag() is a fixed partial function from variant tag to legacy flag: it
\* returns a flag for exactly the nineteen flagged variants, each flag is one
\* defined single-bit constant, and no two variants share a constant.
C6_FlagPartialInjective ==
    op = "flag" =>
        LET t == arg[1].tag
        IN  /\ (t \in DOMAIN FlagOf => ret = Some(ClipEventFlag[FlagOf[t]]))
            /\ (t \notin DOMAIN FlagOf => ret = None)
            /\ (ret # None =>
                    /\ \E n \in DOMAIN ClipEventFlag : ret[1] = ClipEventFlag[n]
                    /\ Cardinality(ret[1]) = 1)
            /\ \A e2 \in ClipEvent :
                    (ret # None /\ flag(e2) = ret) => e2.tag = t

C6_Witness ==
    /\ op = "flag"
    /\ arg[1].tag = "RollOut"
    /\ ret = Some(ClipEventFlag.ROLL_OUT)

RightMiddleVariants ==
    { "RightMouseUp", "MiddleMouseUp", "RightMouseUpInside",
      "MiddleMouseUpInside", "RightMouseDown", "MiddleMouseDown",
      "RightPress", "MiddlePress", "RightRelease", "MiddleRelease",
      "RightReleaseOutside", "MiddleReleaseOutside" }

\* C7 as stated: flag() returns no flag for MouseWheel, DragOut, DragOver,
\* RightMouseUp and the other right/middle button variants.
C7_Original ==
    (op = "flag"
        /\ arg[1].tag \in {"MouseWheel", "DragOut", "DragOver"}
                            \cup RightMiddleVariants)
        => ret = None

\* C7 (amended): flag() returns no flag for MouseWheel, RightMouseUp and the
\* other right/middle button variants, while DragOut and DragOver do have
\* legacy flags, DRAG_OUT and DRAG_OVER.
C7_NoFlagForUnmappedVariants ==
    op = "flag" =>
        LET t == arg[1].tag
        IN  /\ (t \in {"MouseWheel"} \cup RightMiddleVariants => ret = None)
            /\ (t = "DragOut" => ret = Some(ClipEventFlag.DRAG_OUT))
            /\ (t = "DragOver" => ret = Some(ClipEventFlag.DRAG_OVER))

C7_Witness ==
    /\ op = "flag"
    /\ arg[1] = [tag |-> "DragOut", data |-> [to |-> Some(1)]]
    /\ ret = Some(ClipEventFlag.DRAG_OUT)

\* C8: two NaN magnitudes are equal whatever their units, and a NaN magnitude
\* never equals a magnitude that is not NaN.
C8_NaNEquality ==
    op = "eq" =>
        LET a == arg[1]
            b == arg[2]
        IN  /\ (is_nan(a.v) /\ is_nan(b.v) => ret = TRUE)
            /\ (is_nan(a.v) # is_nan(b.v) => ret = FALSE)

C8_Witness ==
    op = "eq" /\ arg[1] = Lines(NaN) /\ arg[2] = Pixels(NaN) /\ ret = TRUE

\* Equality of two deltas whose magnitudes are not both NaN, with the line
\* operand scaled to pixels at 1 line = 100 pixels.
UnitNormalisedEq(a, b) ==
    CASE a.unit = b.unit                        -> F64Eq(a.v, b.v)
      [] a.unit = "Pixels" /\ b.unit = "Lines"  -> F64Eq(a.v, F64Mul(b.v, 100))
      [] a.unit = "Lines" /\ b.unit = "Pixels"  -> F64Eq(b.v, F64Mul(a.v, 100))

\* C9 as stated: for magnitudes not both NaN, same-unit values are equal iff
\* their magnitudes are, Pixels(p) equals Lines(l) iff p = l * 100, and the
\* result agrees with comparing the two values' lines().
C9_Original ==
    (op = "eq" /\ ~(is_nan(arg[1].v) /\ is_nan(arg[2].v))) =>
        /\ ret = UnitNormalisedEq(arg[1], arg[2])
        /\ ret = F64Eq(lines(arg[1]), lines(arg[2]))

\* C9 (amended): for magnitudes not both NaN, same-unit values are equal iff
\* their magnitudes are, and Pixels(p) equals Lines(l), in either order, iff
\* p = l * 100 in f64 arithmetic, so Pixels(100) == Lines(1); the result need
\* not agree with comparing lines(): Pixels(7) differs from Lines(7/100).
C9_UnitNormalisedEquality ==
    (op = "eq" /\ ~(is_nan(arg[1].v) /\ is_nan(arg[2].v))) =>
        /\ ret = UnitNormalisedEq(arg[1], arg[2])
        /\ (arg = <<Pixels(F64Of(FALSE, 100, 0)), Lines(F64Of(FALSE, 1, 0))>>
                => ret = TRUE)
        /\ (arg = <<Lines(F64Of(FALSE, 1, 0)), Pixels(F64Of(FALSE, 100, 0))>>
                => ret = TRUE)
        /\ (arg = <<Pixels(F64Of(FALSE, 7, 0)),
                    Lines(F64Div(F64Of(FALSE, 7, 0), 100))>>
                => ret = FALSE /\ F64Eq(lines(arg[1]), lines(arg[2])))

C9_Witness ==
    /\ op = "eq"
    /\ arg = <<Pixels(F64Of(FALSE, 100, 0)), Lines(F64Of(FALSE, 1, 0))>>
    /\ ret = TRUE

\* C10: lines() returns the magnitude unchanged for Lines(d) and the magnitude
\* divided by 100 for Pixels(d); lines() of Pixels(250) is 2.5.
C10_LinesNormalises ==
    op = "lines" =>
        LET d == arg[1]
        IN  /\ (d.unit = "Lines" => ret = d.v)
            /\ (d.unit = "Pixels" => ret = F64Div(d.v, 100))
            /\ (d = Pixels(F64Of(FALSE, 250, 0)) => ret = F64Of(FALSE, 5, -1))

C10_Witness ==
    /\ op = "lines"
    /\ arg[1] = Pixels(F64Of(FALSE, 250, 0))
    /\ ret = F64Of(FALSE, 5, -1)

\* The navigation and editing keys with a key-press code, and the code of
\* each.
NavigationKeys ==
    { <<"LEFT", "Left">>, <<"RIGHT", "Right">>, <<"HOME", "Home">>,
      <<"END", "End">>, <<"INSERT", "Insert">>, <<"DELETE", "Delete">>,
      <<"BACKSPACE", "Backspace">>, <<"ENTER", "Return">>, <<"UP", "Up">>,
      <<"DOWN", "Down">>, <<"PAGE_UP", "PgUp">>, <<"PAGE_DOWN", "PgDown">>,
      <<"ESCAPE", "Escape">>, <<"TAB", "Tab">> }

\* C11: from_input_event gives a TextInput whose codepoint is in 32..=126 the
\* button key code of that numeric value ('A', 65, gives UppercaseA) and any
\* other TextInput none; a KeyDown gives exactly from_key_code of its key
\* code; every other input event gives none; and no call panics.
C11_FromInputEvent ==
    op = "from_input_event" =>
        LET event == arg[1] IN
            /\ ret # Panic
            /\ event.tag = "TextInput" /\ event.codepoint \in 32..126
                  => ret # None /\ ButtonKeyCode[ret[1]] = event.codepoint
            /\ event.tag = "TextInput" /\ event.codepoint = 65
                  => ret = Some("UppercaseA")
            /\ event.tag = "TextInput" /\ event.codepoint \notin 32..126
                  => ret = None
            /\ event.tag = "KeyDown" => ret = from_key_code(event.key_code)
            /\ event.tag \notin {"TextInput", "KeyDown"} => ret = None

C11_Witness ==
    /\ op = "from_input_event"
    /\ arg[1] = [tag |-> "TextInput", codepoint |-> 65]
    /\ ret = Some("UppercaseA")

\* C12: from_key_code maps exactly the fourteen navigation and editing key
\* codes, each to its button key code, and gives none for every other key
\* code (F1, SPACE, letters and digits among them); it never gives Unknown
\* nor a code in the printable range 32..=126.
C12_FromKeyCodeTable ==
    op = "from_key_code" =>
        LET key_code == arg[1] IN
            /\ Cardinality({KeyCode[p[1]] : p \in NavigationKeys}) = 14
            /\ \A p \in NavigationKeys :
                  key_code = KeyCode[p[1]] => ret = Some(p[2])
            /\ key_code \notin {KeyCode[p[1]] : p \in NavigationKeys}
                  => ret = None
            /\ key_code \in {KeyCode.F1, KeyCode.SPACE, KeyCode.A, KeyCode.Z,
                             KeyCode.NUMBER_0, KeyCode.NUMBER_9}
                  => ret = None
            /\ ret # None => /\ ret[1] # "Unknown"
                             /\ ButtonKeyCode[ret[1]] \notin 32..126

C12_Witness ==
    op = "from_key_code" /\ arg[1] = KeyCode.ENTER /\ ret = Some("Return")

\* C13: character() gives a Character key its own character; the Named keys
\* Backspace, Tab, Enter, Escape and Delete give U+0008, U+0009, U+000D,
\* U+001B and U+007F; Unknown and every other Named key give none.
C13_CharacterOfLogicalKey ==
    op = "character" =>
        LET self == arg[1] IN
            /\ self.tag = "Character" => ret = Some(self.ch)
            /\ self.tag = "Unknown" => ret = None
            /\ self.tag = "Named" =>
                  /\ self.key = "Backspace" => ret = Some(8)
                  /\ self.key = "Tab" => ret = Some(9)
                  /\ self.key = "Enter" => ret = Some(13)
                  /\ self.key = "Escape" => ret = Some(27)
                  /\ self.key = "Delete" => ret = Some(127)
                  /\ self.key \notin {"Backspace", "Tab", "Enter", "Escape",
                                      "Delete"} => ret = None

C13_Witness ==
    /\ op = "character"
    /\ arg[1] = [tag |-> "Named", key |-> "Delete"]
    /\ ret = Some(127)

\* The fourteen tokens of GamepadButton and the button of each.
GamepadButtonTokens ==
    { <<"south", "South">>, <<"east", "East">>, <<"north", "North">>,
      <<"west", "West">>, <<"left-trigger", "LeftTrigger">>,
      <<"left-trigger-2", "LeftTrigger2">>,
      <<"right-trigger", "RightTrigger">>,
      <<"right-trigger-2", "RightTrigger2">>, <<"select", "Select">>,
      <<"start", "Start">>, <<"dpad-up", "DPadUp">>,
      <<"dpad-down", "DPadDown">>, <<"dpad-left", "DPadLeft">>,
      <<"dpad-right", "DPadRight">> }

\* C14: from_str parses each of the fourteen kebab-case tokens to its own
\* button, no two tokens to the same one, and gives ParseEnumError for every
\* other string ("invalid", the empty string, a token in another casing),
\* never a default button.
C14_FromStrTokens ==
    op = "from_str" =>
        LET s == arg[1] IN
            /\ \A p \in GamepadButtonTokens :
                  /\ s = p[1] => ret = Ok(p[2])
                  /\ s # p[1] => ret # Ok(p[2])
            /\ {p[2] : p \in GamepadButtonTokens} = GamepadButton
            /\ s \notin {p[1] : p \in GamepadButtonTokens}
                  => ret = Err(ParseEnumError)
            /\ s \in {"invalid", "", "South", "DPAD-UP"}
                  => ret = Err(ParseEnumError)

C14_Witness ==
    op = "from_str" /\ arg[1] = "" /\ ret = Err(ParseEnumError)

\* C15: is_edit_input() is true exactly for Paste, Cut, Enter, Backspace,
\* BackspaceWord, Delete and DeleteWord, and false for every Move* and
\* Select* code, SelectAll and Copy.
C15_EditInputExactlySeven ==
    op = "is_edit_input" =>
        LET self == arg[1] IN
            /\ ret <=> self \in {"Paste", "Cut", "Enter", "Backspace",
                                 "BackspaceWord", "Delete", "DeleteWord"}
            /\ self \in { "MoveLeft", "MoveLeftWord", "MoveLeftLine",
                          "MoveLeftDocument", "MoveRight", "MoveRightWord",
                          "MoveRightLine", "MoveRightDocument", "SelectLeft",
                          "SelectLeftWord", "SelectLeftLine",
                          "SelectLeftDocument", "SelectRight",
                          "SelectRightWord", "SelectRightLine",
                          "SelectRightDocument", "SelectAll", "Copy" }
                  => ret = FALSE

C15_Witness ==
    op = "is_edit_input" /\ arg[1] = "BackspaceWord" /\ ret = TRUE

\* C16: from_u8(n) gives a code exactly when n is a defined discriminant
\* (0-6, 8, 13-19, 32-126), and then to_u8 of that code is n; it gives none
\* for 7, 9-12, 20-31 and 127-255; and from_u8(to_u8(k)) is k for every
\* code k.
C16_U8RoundTrip ==
    /\ op = "from_u8" =>
          LET n == arg[1] IN
              /\ ret # None <=>
                    n \in (0..6) \cup {8} \cup (13..19) \cup (32..126)
              /\ ret # None => to_u8(ret[1]) = n
              /\ n \in {7} \cup (9..12) \cup (20..31) \cup (127..255)
                    => ret = None
    /\ op = "to_u8" => from_u8(ret) = Some(arg[1])

C16_Witness == op = "from_u8" /\ arg[1] = 19 /\ ret = Some("Escape")

\* C17: equality of MouseWheelDelta values is an equivalence relation, as
\* its Eq implementation promises: every value equals itself (NaN magnitudes
\* included), a == b agrees with b == a, and a == b together with b == c
\* gives a == c, across mixed units.
C17_EqIsEquivalence ==
    op = "eq" =>
        LET a == arg[1]
            b == arg[2]
        IN  /\ eq(a, a)
            /\ ret = eq(b, a)
            /\ \A c \in MouseWheelDeltas : ret /\ eq(b, c) => eq(a, c)

\* Two line magnitudes next to each other, and a pixel magnitude equal to
\* both: a == b holds and b == c holds for a c that a differs from.
C17_Witness ==
    /\ op = "eq"
    /\ arg[1].unit = "Lines" /\ arg[2].unit = "Pixels"
    /\ arg[1].v.cls = "fin" /\ arg[2].v.cls = "fin"
    /\ ret = TRUE
    /\ \E c \in MouseWheelDeltas :
          /\ c.unit = "Lines" /\ c.v.cls = "fin"
          /\ eq(arg[2], c) /\ ~eq(arg[1], c)

\* C18: the tables of ClipEvent are consistent: every variant with a method
\* name has a flag; the variants with a flag and no method name are exactly
\* Construct, Data, Initialize and KeyPress; and the method names of the
\* button events (every one but KeyPress has a name) are exactly the seven
\* names of BUTTON_EVENT_METHODS.
C18_TablesConsistent ==
    op = "method_name" =>
        LET self == arg[1] IN
            /\ ret # None => flag(self) # None
            /\ (flag(self) # None /\ ret = None) <=>
                  self.tag \in {"Construct", "Data", "Initialize", "KeyPress"}
            /\ is_button_event(self) /\ self.tag # "KeyPress" =>
                  /\ ret # None
                  /\ \E i \in DOMAIN BUTTON_EVENT_METHODS :
                        ret = Some(BUTTON_EVENT_METHODS[i])
            /\ \A i \in DOMAIN BUTTON_EVENT_METHODS :
                  \E e \in ClipEvent :
                      /\ is_button_event(e)
                      /\ method_name(e) = Some(BUTTON_EVENT_METHODS[i])
            /\ Cardinality({BUTTON_EVENT_METHODS[i] :
                               i \in DOMAIN BUTTON_EVENT_METHODS}) = 7

C18_Witness ==
    /\ op = "method_name"
    /\ arg[1].tag = "ReleaseOutside"
    /\ is_button_event(arg[1])
    /\ flag(arg[1]) # None
    /\ ret = Some("onReleaseOutside")

====
